---- MODULE Spec2Model ----
(***************************************************************************)
(* MCP2515 SPI CAN controller driver (src/mcp2515.c).                      *)
(*                                                                         *)
(* The model is the interrupt-driven asynchronous SPI state machine of the *)
(* driver: the three lock-protected flags of struct mcp2515_priv, the one  *)
(* reusable SPI message, the chain of completion callbacks, the interrupt  *)
(* handler, the transmit entry and the open/close/set_mode entry points.   *)
(*                                                                         *)
(* Three execution contexts run concurrently: the host transmit entry      *)
(* (xpc), the hard interrupt handler (ipc) and the SPI completion callback *)
(* (cpc).  A context's step is atomic from one lock boundary to the next:  *)
(* a critical section of priv->lock is one step, the code before it and    *)
(* the code after it are steps of their own.  A fourth context (lpc) runs   *)
(* open, close and set_mode, which talk to the chip with synchronous       *)
(* transfers: the SPI core queues every transfer, synchronous or not, in   *)
(* submission order, and the caller of a synchronous one sleeps until it   *)
(* has been executed.                                                      *)
(*                                                                         *)
(* The chip is modelled by its CANINTF and EFLG registers, transmit buffer *)
(* 0 and its TXREQ bit; an SPI transfer acts on the chip when it           *)
(* completes.  Statistics counters and the frame payload bytes do not      *)
(* influence the control flow and are left out; a frame is an identity.    *)
(***************************************************************************)
EXTENDS Integers, FiniteSets, Sequences, TLC

\* Number of distinguishable socket buffers the host hands to the driver.
MaxFrame == 3

CANINTF_RX0IF == 1
CANINTF_RX1IF == 2
CANINTF_TX0IF == 4
CANINTF_ERRIF == 32
EFLG_RX0OVR == 64
EFLG_RX1OVR == 128

CANCTRL_REQOP_NORMAL == 0
CANCTRL_REQOP_LOOPBACK == 64
CANCTRL_REQOP_LISTEN_ONLY == 96
CANCTRL_REQOP_CONF == 128
CANCTRL_REQOP_MASK == 224
CANCTRL_OSM == 8

\* linux/can/netlink.h: the bits of priv->can.ctrlmode
CAN_CTRLMODE_LOOPBACK == 1
CAN_CTRLMODE_LISTENONLY == 2
CAN_CTRLMODE_ONE_SHOT == 8

\* sizeof(priv->tx_buf), sizeof(priv->rx_buf)
BufSize == 14

RXBSIDL_IDE == 8
RXBSIDL_SRR == 16
RXBDLC_RTR == 64

\* linux/can.h: the flags and the identifier masks of can_id.  CAN_EFF_FLAG
\* is bit 31, beyond the integers of the model checker: a can_id is kept as
\* the record of its bit 31 (b31) and its bits 30..0 (low).
CAN_RTR_FLAG == 1073741824
CAN_SFF_MASK == 2047
CAN_EFF_MASK == 536870911

\* Number of frames the bus delivers into the chip's receive buffers.
MaxRx == 2

\* Number of receive overflows.
MaxOver == 1

\* The submissions of one busy span are counted up to this number
MaxSpan == 2

NULL == 0
Frames == 1..MaxFrame

VARIABLES
    busy, interrupt, transmit,  \* priv->busy, priv->interrupt, priv->transmit
    skb,                        \* priv->skb: NULL or the pending frame
    canintf, eflg,              \* priv->canintf, priv->eflg: last read values
    complete,                   \* priv->message.complete
    tx_buf,                     \* priv->transfer.tx_buf: instruction and operand
    inflight,                   \* submitted SPI messages not yet completed
    xpc, xskb,                  \* transmit entry: position, its skb argument
    ipc,                        \* interrupt handler: position
    cpc,                        \* completion callback: position
    up, irq_registered, queue,  \* interface open, request_irq done, tx queue awake
    can_state,                  \* priv->can.state
    chip_intf, chip_eflg,       \* the chip's CANINTF and EFLG registers
    chip_txreq,                 \* the chip's TXB0CTRL.TXREQ: a transmission is requested
    chip_on,                    \* the chip left configuration mode
    lpc,                        \* open/close/set_mode: position
    sync,                       \* the synchronous transfer it waits for, relative
                                \* to the asynchronous message in the SPI queue
    unserviced,                 \* history: the handler ran since the last READ_FLAGS was submitted
    failed,                     \* history: spi_async() returned an error
    tx_sent,                    \* history: the RTS_TXB0 of the frame in priv->skb completed
    load_skb,                   \* history: the frame of the LOAD_TXB0/RTS_TXB0 pair under way
    rx_packets, rx_dropped,     \* dev->stats.rx_packets, dev->stats.rx_dropped
    rx_over_errors,             \* dev->stats.rx_over_errors
    oops,                       \* the kernel dereferenced a NULL skb
    span_tx,                    \* history: messages the SPI core accepted
                                \* since busy was set, counted up to MaxSpan
    candev_open,                \* open_candev succeeded, close_candev not yet
    power,                      \* the last mcp2515_power_switch asked for on
    open_err,                   \* what the last mcp2515_open returned
    ctrlmode,                   \* priv->can.ctrlmode
    canctrl,                    \* the chip's CANCTRL register
    reg_stat,                   \* chip_start: the CANSTAT value it read last
    frame,                      \* the can_frame handed to mcp2515_set_txbuf
    txb,                        \* the 13 bytes after the instruction byte in
                                \* the buffer: TXBnSIDH .. TXBnD7
    rx_frame,                   \* the can_frame mcp2515_read_rxb_complete built
    len,                        \* priv->transfer.len
    reach,                      \* history: the number of leading bytes of
                                \* tx_buf and rx_buf that were read or written
    ppc                         \* position in the walk through a calculation
                                \* (PureSpec)

priv_flags == <<busy, interrupt, transmit>>
priv_regs == <<canintf, eflg>>
message == <<complete, tx_buf, inflight, failed, span_tx>>
netdev == <<up, irq_registered, queue, can_state>>
chip == <<chip_intf, chip_eflg, chip_txreq, chip_on>>
stats == <<rx_packets, rx_dropped, rx_over_errors>>
opened == <<candev_open, power, open_err>>
vars == <<busy, interrupt, transmit, skb, canintf, eflg, complete, tx_buf,
          inflight, xpc, xskb, ipc, cpc, up, irq_registered, queue, can_state,
          chip_intf, chip_eflg, chip_txreq, chip_on, lpc, sync,
          unserviced, failed, tx_sent, load_skb, rx_packets, rx_dropped,
          rx_over_errors, oops, span_tx, candev_open, power, open_err, ctrlmode,
          canctrl, reg_stat, frame, txb, rx_frame, len, reach, ppc>>

\* the state of the asynchronous machine and its lifecycle
driver == <<busy, interrupt, transmit, skb, canintf, eflg, complete, tx_buf,
            inflight, xpc, xskb, ipc, cpc, up, irq_registered, queue,
            can_state, chip_intf, chip_eflg, chip_txreq, chip_on, lpc, sync,
            unserviced, failed, tx_sent, load_skb, rx_packets, rx_dropped,
            rx_over_errors, oops, span_tx, candev_open, power, open_err>>

\* the state of the walks through the driver's calculations
pure == <<ctrlmode, canctrl, reg_stat, frame, txb, rx_frame, len, reach,
          ppc>>
mode_request == <<ctrlmode, canctrl, reg_stat>>
codec == <<frame, txb, rx_frame>>

RECURSIVE BitAnd(_, _)
BitAnd(a, b) ==
    IF a = 0 \/ b = 0 THEN 0
    ELSE ((a % 2) * (b % 2)) + 2 * BitAnd(a \div 2, b \div 2)

BitOr(a, b) == a + b - BitAnd(a, b)

\* a & ~m
BitClear(a, m) == a - BitAnd(a, m)

DriverInit ==
    /\ busy = FALSE /\ interrupt = FALSE /\ transmit = FALSE
    /\ skb = NULL
    /\ canintf = 0 /\ eflg = 0
    /\ complete = "none"
    /\ tx_buf = [ins |-> "none", arg |-> 0]
    /\ inflight = 0
    /\ xpc = "idle" /\ xskb = NULL
    /\ ipc = "idle"
    /\ cpc = "idle"
    /\ up = FALSE /\ irq_registered = FALSE /\ queue = FALSE
    /\ can_state = "STOPPED"
    /\ chip_intf = 0 /\ chip_eflg = 0
    /\ chip_txreq = FALSE
    /\ chip_on = FALSE
    /\ lpc = "idle"
    /\ sync = "none"
    /\ unserviced = FALSE
    /\ failed = FALSE
    /\ tx_sent = FALSE
    /\ load_skb = NULL
    /\ rx_packets = 0 /\ rx_dropped = 0 /\ rx_over_errors = 0
    /\ oops = FALSE
    /\ span_tx = 0
    /\ candev_open = FALSE /\ power = FALSE /\ open_err = "none"

\* a can_frame as alloc_can_skb hands it out: all zero
ZeroFrame ==
    [can_id |-> [b31 |-> 0, low |-> 0], can_dlc |-> 0,
     data |-> [i \in 1 .. 8 |-> 0]]

\* the 13 buffer bytes after the instruction byte, all equal to b
Bytes13(b) == [i \in 1 .. 13 |-> b]

\* no mode is being requested
ModeOff ==
    /\ ctrlmode = 0
    /\ canctrl = CANCTRL_REQOP_CONF
    /\ reg_stat = CANCTRL_REQOP_CONF

\* no frame is being encoded or decoded
CodecOff ==
    /\ frame = ZeroFrame
    /\ txb = Bytes13(0)
    /\ rx_frame = ZeroFrame

\* no transfer is set up
TransferOff == len = 0 /\ reach = 0

\* the calculations are not walked through
PureOff == ModeOff /\ CodecOff /\ TransferOff /\ ppc = "off"

Init == DriverInit /\ PureOff

(***************************************************************************)
(* Starting an asynchronous SPI transaction.  `ok` is the outcome of       *)
(* spi_async(): on an error the message is not queued and the driver only  *)
(* logs.  `base` is the number of messages in flight before the submit.    *)
(***************************************************************************)
mcp2515_spi_async(ok, base) ==
    /\ inflight' = base + (IF ok THEN 1 ELSE 0)
    /\ failed' = (failed \/ ~ok)
    /\ span_tx' = IF ok /\ span_tx < MaxSpan THEN span_tx + 1 ELSE span_tx

mcp2515_read_flags(ok, base) ==
    /\ tx_buf' = [ins |-> "READ", arg |-> 0]
    /\ complete' = "read_flags"
    /\ mcp2515_spi_async(ok, base)
    /\ unserviced' = (unserviced /\ ~ok)

mcp2515_read_rxb0(ok, base) ==
    /\ tx_buf' = [ins |-> "READ_RXB0", arg |-> 0]
    /\ complete' = "read_rxb0"
    /\ mcp2515_spi_async(ok, base)
    /\ UNCHANGED unserviced

mcp2515_read_rxb1(ok, base) ==
    /\ tx_buf' = [ins |-> "READ_RXB1", arg |-> 0]
    /\ complete' = "read_rxb1"
    /\ mcp2515_spi_async(ok, base)
    /\ UNCHANGED unserviced

\* Variant: the BIT-MODIFY is sent with every bit in its mask.
clear_canintf_all_bits(intf, ok, base) ==
    /\ tx_buf' = [ins |-> "BIT_MODIFY_CANINTF", arg |-> 255]
    /\ complete' = "clear_canintf"
    /\ mcp2515_spi_async(ok, base)
    /\ UNCHANGED unserviced

\* mask = priv->canintf & ~(CANINTF_RX0IF | CANINTF_RX1IF); `intf` is priv->canintf
mcp2515_clear_canintf(intf, ok, base) ==
    /\ tx_buf' = [ins |-> "BIT_MODIFY_CANINTF",
                  arg |-> BitClear(intf, BitOr(CANINTF_RX0IF, CANINTF_RX1IF))]
    /\ complete' = "clear_canintf"
    /\ mcp2515_spi_async(ok, base)
    /\ UNCHANGED unserviced

mcp2515_clear_eflg(ok, base) ==
    /\ tx_buf' = [ins |-> "BIT_MODIFY_EFLG", arg |-> eflg]
    /\ complete' = "clear_eflg"
    /\ mcp2515_spi_async(ok, base)
    /\ UNCHANGED unserviced

\* `s` is the skb argument, not NULL; the frame is copied into the buffer
mcp2515_load_txb0(s, ok, base) ==
    /\ tx_buf' = [ins |-> "LOAD_TXB0", arg |-> s]
    /\ complete' = "load_txb0"
    /\ mcp2515_spi_async(ok, base)
    /\ load_skb' = s
    /\ UNCHANGED unserviced

\* only buf[0] is written: the frame bytes stay behind it
mcp2515_rts_txb0(ok, base) ==
    /\ tx_buf' = [ins |-> "RTS", arg |-> tx_buf.arg]
    /\ complete' = "rts_txb0"
    /\ mcp2515_spi_async(ok, base)
    /\ UNCHANGED unserviced

(***************************************************************************)
(* What the finished transfer did to the chip: the instruction in the      *)
(* shared TX buffer is the one the chip executed.                          *)
(***************************************************************************)
chip_exec ==
    /\ chip_intf' =
         CASE tx_buf.ins = "READ_RXB0" -> BitClear(chip_intf, CANINTF_RX0IF)
           [] tx_buf.ins = "READ_RXB1" -> BitClear(chip_intf, CANINTF_RX1IF)
           [] tx_buf.ins = "BIT_MODIFY_CANINTF" -> BitClear(chip_intf, tx_buf.arg)
           [] OTHER -> chip_intf
    /\ chip_eflg' = IF tx_buf.ins = "BIT_MODIFY_EFLG"
                    THEN BitClear(chip_eflg, tx_buf.arg) ELSE chip_eflg
    /\ chip_txreq' = (chip_txreq \/ tx_buf.ins = "RTS")
    /\ UNCHANGED chip_on

\* The SPI core finishes the message and calls message.complete.  A message
\* queued behind a synchronous transfer waits for it; a synchronous transfer
\* queued behind the message is the next one once the message is done, and
\* whatever the callback submits is queued behind it.
spi_complete(cb) ==
    /\ ~oops
    /\ inflight > 0
    /\ cpc = "idle"
    /\ sync # "ahead"
    /\ complete = cb
    /\ chip_exec
    /\ sync' = IF sync = "behind" THEN "ahead" ELSE sync

(***************************************************************************)
(* Completion callbacks.                                                   *)
(***************************************************************************)

\* "read CANINTF and EFLG" completed: the part before the lock is taken
mcp2515_read_flags_complete ==
    /\ spi_complete("read_flags")
    /\ canintf' = chip_intf
    /\ eflg' = chip_eflg
    /\ \E ok \in BOOLEAN :
         IF BitAnd(chip_intf, CANINTF_RX0IF) # 0
         THEN mcp2515_read_rxb0(ok, inflight - 1) /\ cpc' = "idle"
         ELSE IF BitAnd(chip_intf, CANINTF_RX1IF) # 0
         THEN mcp2515_read_rxb1(ok, inflight - 1) /\ cpc' = "idle"
         ELSE IF chip_intf # 0
         THEN mcp2515_clear_canintf(chip_intf, ok, inflight - 1) /\ cpc' = "idle"
         ELSE /\ cpc' = "drain"
              /\ inflight' = inflight - 1
              /\ UNCHANGED <<complete, tx_buf, failed, span_tx, unserviced>>
    /\ UNCHANGED <<priv_flags, skb, xpc, xskb, ipc, netdev, tx_sent, load_skb,
                   oops, lpc>>
    /\ UNCHANGED stats
    /\ UNCHANGED pure
    /\ UNCHANGED opened

\* Variant: the drain goes idle without testing priv->interrupt.
read_flags_complete_locked_drops_interrupt ==
    /\ ~oops
    /\ cpc = "drain"
    /\ IF transmit
       THEN /\ transmit' = FALSE
            /\ cpc' = "load_txb0"
            /\ UNCHANGED <<busy, interrupt>>
       ELSE /\ busy' = FALSE
            /\ cpc' = "idle"
            /\ UNCHANGED <<interrupt, transmit>>
    /\ span_tx' = IF busy' THEN span_tx ELSE 0
    /\ UNCHANGED <<skb, priv_regs, complete, tx_buf, inflight, failed, xpc,
                   xskb, ipc, netdev, chip, unserviced, tx_sent, load_skb,
                   oops, lpc, sync>>
    /\ UNCHANGED stats
    /\ UNCHANGED pure
    /\ UNCHANGED opened

\* CANINTF read as zero: the critical section of mcp2515_read_flags_complete
mcp2515_read_flags_complete_locked ==
    /\ ~oops
    /\ cpc = "drain"
    /\ IF transmit
       THEN /\ transmit' = FALSE
            /\ cpc' = "load_txb0"
            /\ UNCHANGED <<busy, interrupt>>
       ELSE IF interrupt
       THEN /\ interrupt' = FALSE
            /\ cpc' = "read_flags"
            /\ UNCHANGED <<busy, transmit>>
       ELSE /\ busy' = FALSE
            /\ cpc' = "idle"
            /\ UNCHANGED <<interrupt, transmit>>
    /\ span_tx' = IF busy' THEN span_tx ELSE 0
    /\ UNCHANGED <<skb, priv_regs, complete, tx_buf, inflight, failed, xpc,
                   xskb, ipc, netdev, chip, unserviced, tx_sent, load_skb,
                   oops, lpc, sync>>
    /\ UNCHANGED stats
    /\ UNCHANGED pure
    /\ UNCHANGED opened

\* after the lock is released: mcp2515_load_txb0(priv->skb, dev)
callback_load_txb0 ==
    /\ ~oops
    /\ cpc = "load_txb0"
    /\ IF skb = NULL
       THEN /\ oops' = TRUE
            /\ UNCHANGED <<cpc, message, unserviced, load_skb>>
       ELSE /\ \E ok \in BOOLEAN : mcp2515_load_txb0(skb, ok, inflight)
            /\ cpc' = "idle"
            /\ UNCHANGED oops
    /\ UNCHANGED <<priv_flags, skb, priv_regs, xpc, xskb, ipc, netdev, chip,
                   tx_sent, lpc, sync>>
    /\ UNCHANGED stats
    /\ UNCHANGED pure
    /\ UNCHANGED opened

\* after the lock is released: mcp2515_read_flags(dev)
callback_read_flags ==
    /\ ~oops
    /\ cpc = "read_flags"
    /\ \E ok \in BOOLEAN : mcp2515_read_flags(ok, inflight)
    /\ cpc' = "idle"
    /\ UNCHANGED <<priv_flags, skb, priv_regs, xpc, xskb, ipc, netdev, chip,
                   tx_sent, load_skb, oops, lpc, sync>>
    /\ UNCHANGED stats
    /\ UNCHANGED pure
    /\ UNCHANGED opened

\* Variant: the READ_FLAGS branch clears priv->interrupt.
transmit_or_read_flags_clears_interrupt ==
    /\ ~oops
    /\ cpc = "transmit_or_read_flags"
    /\ IF transmit
       THEN /\ transmit' = FALSE
            /\ cpc' = "load_txb0"
            /\ UNCHANGED interrupt
       ELSE /\ cpc' = "read_flags"
            /\ interrupt' = FALSE
            /\ UNCHANGED transmit
    /\ UNCHANGED <<busy, skb, priv_regs, message, xpc, xskb, ipc, netdev,
                   chip, unserviced, tx_sent, load_skb, oops, lpc, sync>>
    /\ UNCHANGED stats
    /\ UNCHANGED pure
    /\ UNCHANGED opened

\* the critical section of mcp2515_transmit_or_read_flags
mcp2515_transmit_or_read_flags ==
    /\ ~oops
    /\ cpc = "transmit_or_read_flags"
    /\ IF transmit
       THEN /\ transmit' = FALSE
            /\ cpc' = "load_txb0"
       ELSE /\ cpc' = "read_flags"
            /\ UNCHANGED transmit
    /\ UNCHANGED <<busy, interrupt, skb, priv_regs, message, xpc, xskb, ipc,
                   netdev, chip, unserviced, tx_sent, load_skb, oops, lpc,
                   sync>>
    /\ UNCHANGED stats
    /\ UNCHANGED pure
    /\ UNCHANGED opened

\* Variant: a frame that could not be allocated is counted as received too.
read_rxb_complete_counts_dropped(alloc_ok) ==
    /\ rx_packets' = rx_packets + 1
    /\ rx_dropped' = IF alloc_ok THEN rx_dropped ELSE rx_dropped + 1
    /\ UNCHANGED rx_over_errors

\* The frame in the RX buffer of the message is decoded and handed to the
\* host (netif_rx_ni), or dropped when no skb can be allocated.
mcp2515_read_rxb_complete(alloc_ok) ==
    /\ IF alloc_ok
       THEN rx_packets' = rx_packets + 1 /\ UNCHANGED rx_dropped
       ELSE rx_dropped' = rx_dropped + 1 /\ UNCHANGED rx_packets
    /\ UNCHANGED rx_over_errors

\* Variant: after RXB0 the flags are read again without looking at RX1IF.
read_rxb0_complete_rereads_flags ==
    /\ spi_complete("read_rxb0")
    /\ \E alloc_ok \in BOOLEAN : mcp2515_read_rxb_complete(alloc_ok)
    /\ cpc' = "transmit_or_read_flags"
    /\ inflight' = inflight - 1
    /\ UNCHANGED <<complete, tx_buf, failed, span_tx, unserviced>>
    /\ UNCHANGED <<priv_flags, skb, priv_regs, xpc, xskb, ipc, netdev,
                   tx_sent, load_skb, oops, lpc>>
    /\ UNCHANGED pure
    /\ UNCHANGED opened

\* "read receive buffer 0" completed
mcp2515_read_rxb0_complete ==
    /\ spi_complete("read_rxb0")
    /\ \E alloc_ok \in BOOLEAN : mcp2515_read_rxb_complete(alloc_ok)
    /\ IF BitAnd(canintf, CANINTF_RX1IF) # 0
       THEN /\ \E ok \in BOOLEAN : mcp2515_read_rxb1(ok, inflight - 1)
            /\ cpc' = "idle"
       ELSE /\ cpc' = "transmit_or_read_flags"
            /\ inflight' = inflight - 1
            /\ UNCHANGED <<complete, tx_buf, failed, span_tx, unserviced>>
    /\ UNCHANGED <<priv_flags, skb, priv_regs, xpc, xskb, ipc, netdev,
                   tx_sent, load_skb, oops, lpc>>
    /\ UNCHANGED pure
    /\ UNCHANGED opened

\* "read receive buffer 1" completed
mcp2515_read_rxb1_complete ==
    /\ spi_complete("read_rxb1")
    /\ \E alloc_ok \in BOOLEAN : mcp2515_read_rxb_complete(alloc_ok)
    /\ cpc' = "transmit_or_read_flags"
    /\ inflight' = inflight - 1
    /\ UNCHANGED <<complete, tx_buf, failed, span_tx, unserviced>>
    /\ UNCHANGED <<priv_flags, skb, priv_regs, xpc, xskb, ipc, netdev,
                   tx_sent, load_skb, oops, lpc>>
    /\ UNCHANGED pure
    /\ UNCHANGED opened

\* Variant: after CLEAR_CANINTF the flags are read again although EFLG was
\* not zero.
clear_canintf_complete_skips_eflg ==
    /\ spi_complete("clear_canintf")
    /\ IF BitAnd(canintf, CANINTF_TX0IF) # 0
       THEN skb' = NULL /\ queue' = TRUE /\ tx_sent' = FALSE
       ELSE UNCHANGED <<skb, queue, tx_sent>>
    /\ UNCHANGED load_skb
    /\ \E ok \in BOOLEAN : mcp2515_read_flags(ok, inflight - 1)
    /\ cpc' = "idle"
    /\ UNCHANGED <<priv_flags, priv_regs, xpc, xskb, ipc, up, irq_registered,
                   can_state, oops, lpc>>
    /\ UNCHANGED stats
    /\ UNCHANGED pure
    /\ UNCHANGED opened

\* "clear CANINTF bits" completed: TX0IF finalises the pending frame
mcp2515_clear_canintf_complete ==
    /\ spi_complete("clear_canintf")
    /\ IF BitAnd(canintf, CANINTF_TX0IF) # 0
       THEN skb' = NULL /\ queue' = TRUE /\ tx_sent' = FALSE
       ELSE UNCHANGED <<skb, queue, tx_sent>>
    /\ UNCHANGED load_skb
    /\ \E ok \in BOOLEAN :
         IF eflg # 0
         THEN mcp2515_clear_eflg(ok, inflight - 1)
         ELSE mcp2515_read_flags(ok, inflight - 1)
    /\ cpc' = "idle"
    /\ UNCHANGED <<priv_flags, priv_regs, xpc, xskb, ipc, up, irq_registered,
                   can_state, oops, lpc>>
    /\ UNCHANGED stats
    /\ UNCHANGED pure
    /\ UNCHANGED opened

\* "clear EFLG bits" completed
mcp2515_clear_eflg_complete ==
    /\ spi_complete("clear_eflg")
    /\ rx_over_errors' =
         IF BitAnd(eflg, BitOr(EFLG_RX0OVR, EFLG_RX1OVR)) # 0
         THEN rx_over_errors + 1 ELSE rx_over_errors
    /\ \E ok \in BOOLEAN : mcp2515_read_flags(ok, inflight - 1)
    /\ cpc' = "idle"
    /\ UNCHANGED <<priv_flags, skb, priv_regs, xpc, xskb, ipc, netdev,
                   tx_sent, load_skb, oops, lpc>>
    /\ UNCHANGED <<rx_packets, rx_dropped>>
    /\ UNCHANGED pure
    /\ UNCHANGED opened

\* "load transmit buffer 0" completed
mcp2515_load_txb0_complete ==
    /\ spi_complete("load_txb0")
    /\ \E ok \in BOOLEAN : mcp2515_rts_txb0(ok, inflight - 1)
    /\ cpc' = "idle"
    /\ UNCHANGED <<priv_flags, skb, priv_regs, xpc, xskb, ipc, netdev,
                   tx_sent, load_skb, oops, lpc>>
    /\ UNCHANGED stats
    /\ UNCHANGED pure
    /\ UNCHANGED opened

\* "request to send transmit buffer 0" completed
mcp2515_rts_txb0_complete ==
    /\ spi_complete("rts_txb0")
    /\ tx_sent' = (tx_sent \/ (skb # NULL /\ load_skb = skb))
    /\ load_skb' = NULL
    /\ \E ok \in BOOLEAN : mcp2515_read_flags(ok, inflight - 1)
    /\ cpc' = "idle"
    /\ UNCHANGED <<priv_flags, skb, priv_regs, xpc, xskb, ipc, netdev, oops,
                   lpc>>
    /\ UNCHANGED stats
    /\ UNCHANGED pure
    /\ UNCHANGED opened

(***************************************************************************)
(* Interrupt handler.  The line is requested at open and freed at close;   *)
(* the handler of one line does not re-enter itself.                       *)
(***************************************************************************)

\* Variant: the handler starts READ_FLAGS without testing priv->busy.
mcp2515_interrupt_ignores_busy ==
    /\ ~oops
    /\ irq_registered
    /\ ipc = "idle"
    /\ unserviced' = TRUE
    /\ busy' = TRUE
    /\ ipc' = "read_flags"
    /\ UNCHANGED <<interrupt, transmit, skb, priv_regs, message, xpc, xskb,
                   cpc, netdev, chip, tx_sent, load_skb, oops, lpc, sync>>
    /\ UNCHANGED stats
    /\ UNCHANGED pure
    /\ UNCHANGED opened

\* the critical section of mcp2515_interrupt
mcp2515_interrupt ==
    /\ ~oops
    /\ irq_registered
    /\ ipc = "idle"
    /\ unserviced' = TRUE
    /\ IF busy
       THEN /\ interrupt' = TRUE
            /\ UNCHANGED <<busy, ipc>>
       ELSE /\ busy' = TRUE
            /\ ipc' = "read_flags"
            /\ UNCHANGED interrupt
    /\ UNCHANGED <<transmit, skb, priv_regs, message, xpc, xskb, cpc, netdev,
                   chip, tx_sent, load_skb, oops, lpc, sync>>
    /\ UNCHANGED stats
    /\ UNCHANGED pure
    /\ UNCHANGED opened

\* after the lock is released: mcp2515_read_flags(dev)
interrupt_read_flags ==
    /\ ~oops
    /\ ipc = "read_flags"
    /\ \E ok \in BOOLEAN : mcp2515_read_flags(ok, inflight)
    /\ ipc' = "idle"
    /\ UNCHANGED <<priv_flags, skb, priv_regs, xpc, xskb, cpc, netdev, chip,
                   tx_sent, load_skb, oops, lpc, sync>>
    /\ UNCHANGED stats
    /\ UNCHANGED pure
    /\ UNCHANGED opened

(***************************************************************************)
(* Transmit entry.  The host calls it only while the interface is up and   *)
(* the transmit queue is awake, and never concurrently with itself.        *)
(***************************************************************************)

\* the frame whose bytes are in the shared TX buffer
TxFrame == IF tx_buf.ins \in {"LOAD_TXB0", "RTS"} THEN tx_buf.arg ELSE NULL

\* skbs the host can hand over: none that the driver still refers to
FreeFrames == Frames \ {skb, xskb, TxFrame, load_skb}

\* the allocator's choice among them
NewFrame == CHOOSE s \in FreeFrames : \A t \in FreeFrames : s <= t

\* Variant: priv->transmit is set before the lock is taken.
start_xmit_sets_transmit_early ==
    /\ ~oops
    /\ up /\ queue
    /\ xpc = "idle"
    /\ FreeFrames # {}
    /\ \E valid \in BOOLEAN :
         IF ~valid
         THEN UNCHANGED <<queue, skb, xskb, xpc, tx_sent, transmit>>
         ELSE /\ queue' = FALSE
              /\ tx_sent' = FALSE
              /\ skb' = NewFrame
              /\ xskb' = NewFrame
              /\ transmit' = TRUE
              /\ xpc' = "lock"
    /\ UNCHANGED <<busy, interrupt, priv_regs, message, ipc, cpc, up,
                   irq_registered, can_state, chip, unserviced, load_skb,
                   oops, lpc, sync>>
    /\ UNCHANGED stats
    /\ UNCHANGED pure
    /\ UNCHANGED opened

\* the part before the lock is taken
mcp2515_start_xmit ==
    /\ ~oops
    /\ up /\ queue
    /\ xpc = "idle"
    /\ FreeFrames # {}
    /\ \E valid \in BOOLEAN :
         IF ~valid
         THEN UNCHANGED <<queue, skb, xskb, xpc, tx_sent>>
         ELSE /\ queue' = FALSE
              /\ tx_sent' = FALSE
              /\ skb' = NewFrame
              /\ xskb' = NewFrame
              /\ xpc' = "lock"
    /\ UNCHANGED <<priv_flags, priv_regs, message, ipc, cpc, up,
                   irq_registered, can_state, chip, unserviced, load_skb,
                   oops, lpc, sync>>
    /\ UNCHANGED stats
    /\ UNCHANGED pure
    /\ UNCHANGED opened

\* Variant: the transmit entry loads its frame at once, whether a chain is
\* running or not.
start_xmit_locked_ignores_busy ==
    /\ ~oops
    /\ xpc = "lock"
    /\ busy' = TRUE
    /\ xpc' = "load_txb0"
    /\ UNCHANGED <<transmit, xskb>>
    /\ UNCHANGED <<interrupt, skb, priv_regs, message, ipc, cpc, netdev, chip,
                   unserviced, tx_sent, load_skb, oops, lpc, sync>>
    /\ UNCHANGED stats
    /\ UNCHANGED pure
    /\ UNCHANGED opened

\* the critical section of mcp2515_start_xmit
mcp2515_start_xmit_locked ==
    /\ ~oops
    /\ xpc = "lock"
    /\ IF busy
       THEN /\ transmit' = TRUE
            /\ xpc' = "idle"
            /\ xskb' = NULL
            /\ UNCHANGED busy
       ELSE /\ busy' = TRUE
            /\ xpc' = "load_txb0"
            /\ UNCHANGED <<transmit, xskb>>
    /\ UNCHANGED <<interrupt, skb, priv_regs, message, ipc, cpc, netdev, chip,
                   unserviced, tx_sent, load_skb, oops, lpc, sync>>
    /\ UNCHANGED stats
    /\ UNCHANGED pure
    /\ UNCHANGED opened

\* after the lock is released: mcp2515_load_txb0(skb, dev)
start_xmit_load_txb0 ==
    /\ ~oops
    /\ xpc = "load_txb0"
    /\ \E ok \in BOOLEAN : mcp2515_load_txb0(xskb, ok, inflight)
    /\ xpc' = "idle"
    /\ xskb' = NULL
    /\ UNCHANGED <<priv_flags, skb, priv_regs, ipc, cpc, netdev, chip,
                   tx_sent, oops, lpc, sync>>
    /\ UNCHANGED stats
    /\ UNCHANGED pure
    /\ UNCHANGED opened

(***************************************************************************)
(* Synchronous bring-up and teardown.  The host serialises open, close and *)
(* set_mode, and runs no transmit while the interface is closed or closing.*)
(***************************************************************************)

\* spi_write(), spi_write_then_read(): the transfer is queued behind the
\* message in flight, if there is one
spi_sync == sync' = IF inflight > 0 THEN "behind" ELSE "ahead"

\* RESET: the chip returns to configuration mode with its registers cleared
mcp2515_hw_reset ==
    /\ chip_intf' = 0
    /\ chip_eflg' = 0
    /\ chip_txreq' = FALSE
    /\ chip_on' = FALSE

\* open until chip_start waits for its reset
mcp2515_open ==
    /\ ~oops
    /\ ~up
    /\ lpc = "idle"
    /\ \E r \in {"candev_err", "irq_err", "ok"} :
         IF r = "ok"
         THEN /\ power' = TRUE
              /\ candev_open' = TRUE
              /\ irq_registered' = TRUE
              /\ open_err' = "none"
              /\ lpc' = "open_reset"
              /\ spi_sync
         ELSE /\ power' = FALSE
              /\ candev_open' = FALSE
              /\ open_err' = r
              /\ UNCHANGED <<irq_registered, lpc, sync>>
    /\ UNCHANGED <<priv_flags, skb, priv_regs, message, xpc, xskb, ipc, cpc,
                   up, queue, can_state, chip, unserviced, tx_sent, load_skb,
                   oops>>
    /\ UNCHANGED stats
    /\ UNCHANGED pure

\* set_mode until chip_start waits for its reset
mcp2515_set_mode ==
    /\ ~oops
    /\ up
    /\ lpc = "idle"
    /\ \E mode \in {"CAN_MODE_START", "CAN_MODE_STOP"} :
         IF mode = "CAN_MODE_START"
         THEN lpc' = "mode_reset" /\ spi_sync
         ELSE UNCHANGED <<lpc, sync>>
    /\ UNCHANGED <<priv_flags, skb, priv_regs, message, xpc, xskb, ipc, cpc,
                   netdev, chip, unserviced, tx_sent, load_skb, oops>>
    /\ UNCHANGED stats
    /\ UNCHANGED pure
    /\ UNCHANGED opened

\* Variant: the failed_start label closes the CAN device and leaves the
\* interrupt handler registered.
open_failed_start_keeps_irq(err) ==
    IF lpc \in {"open_reset", "open_config"}
    THEN /\ ipc = "idle"
         /\ candev_open' = FALSE
         /\ power' = FALSE
         /\ open_err' = err
         /\ UNCHANGED irq_registered
    ELSE UNCHANGED <<irq_registered, opened>>

\* chip_start failed with err.  In open: free_irq, which waits for a running
\* handler, close_candev and power off; set_mode only returns the error.
open_failed_start(err) ==
    IF lpc \in {"open_reset", "open_config"}
    THEN /\ ipc = "idle"
         /\ irq_registered' = FALSE
         /\ candev_open' = FALSE
         /\ power' = FALSE
         /\ open_err' = err
    ELSE UNCHANGED <<irq_registered, opened>>

\* The reset of chip_start was executed.  chip_start then builds the
\* configuration writes in priv->transfer.tx_buf, the buffer of the
\* asynchronous message, and waits for them.  A message in flight at that
\* moment is sent with its own bytes or with the new ones.
mcp2515_chip_start ==
    /\ ~oops
    /\ lpc \in {"open_reset", "mode_reset"}
    /\ sync = "ahead"
    /\ \E ok \in BOOLEAN :
         IF ok
         THEN /\ mcp2515_hw_reset
              /\ tx_buf' \in {[ins |-> "WRITE", arg |-> 0]}
                             \cup (IF inflight > 0 THEN {tx_buf} ELSE {})
              /\ lpc' = IF lpc = "open_reset" THEN "open_config"
                                              ELSE "mode_config"
              /\ spi_sync
              /\ UNCHANGED <<irq_registered, opened>>
         ELSE /\ open_failed_start("EIO")
              /\ lpc' = "idle"
              /\ sync' = "none"
              /\ UNCHANGED <<chip, tx_buf>>
    /\ UNCHANGED <<priv_flags, skb, priv_regs, complete, inflight, failed,
                   span_tx,
                   xpc, xskb, ipc, cpc, up, queue, can_state, unserviced,
                   tx_sent, load_skb, oops>>
    /\ UNCHANGED stats
    /\ UNCHANGED pure

\* The configuration writes were executed and the mode transition is over
\* (reached, failed or timed out); chip_start returns, and open or set_mode
\* after it.
chip_start_requested_mode ==
    /\ ~oops
    /\ lpc \in {"open_config", "mode_config"}
    /\ sync = "ahead"
    /\ \E r \in {"ok", "EIO", "EBUSY"} :
         IF r = "ok"
         THEN /\ chip_on' = TRUE
              /\ can_state' = "ERROR_ACTIVE"
              /\ queue' = TRUE
              /\ up' = TRUE
              /\ open_err' = IF lpc = "open_config" THEN "0" ELSE open_err
              /\ UNCHANGED <<irq_registered, candev_open, power>>
         ELSE /\ open_failed_start(r)
              /\ UNCHANGED <<chip_on, can_state, queue, up>>
    /\ lpc' = "idle"
    /\ sync' = "none"
    /\ UNCHANGED <<priv_flags, skb, priv_regs, message, xpc, xskb, ipc, cpc,
                   chip_intf, chip_eflg, chip_txreq, unserviced, tx_sent,
                   load_skb, oops>>
    /\ UNCHANGED stats
    /\ UNCHANGED pure

\* close until chip_stop waits for its reset
mcp2515_close ==
    /\ ~oops
    /\ up
    /\ lpc = "idle"
    /\ xpc = "idle"
    /\ queue' = FALSE
    /\ lpc' = "close_reset"
    /\ spi_sync
    /\ UNCHANGED <<priv_flags, skb, priv_regs, message, xpc, xskb, ipc, cpc,
                   up, irq_registered, can_state, chip, unserviced, tx_sent,
                   load_skb, oops>>
    /\ UNCHANGED stats
    /\ UNCHANGED pure
    /\ UNCHANGED opened

\* The reset of chip_stop was executed; free_irq waits for a running handler.
mcp2515_chip_stop ==
    /\ ~oops
    /\ lpc = "close_reset"
    /\ sync = "ahead"
    /\ ipc = "idle"
    /\ mcp2515_hw_reset
    /\ can_state' = "STOPPED"
    /\ irq_registered' = FALSE
    /\ power' = FALSE
    /\ candev_open' = FALSE
    /\ up' = FALSE
    /\ UNCHANGED open_err
    /\ lpc' = "idle"
    /\ sync' = "none"
    /\ UNCHANGED <<priv_flags, skb, priv_regs, message, xpc, xskb, ipc, cpc,
                   queue, unserviced, tx_sent, load_skb, oops>>
    /\ UNCHANGED stats
    /\ UNCHANGED pure

(***************************************************************************)
(* The chip.                                                               *)
(***************************************************************************)

\* frames waiting in the chip's receive buffers
RxPending ==
    (IF BitAnd(chip_intf, CANINTF_RX0IF) # 0 THEN 1 ELSE 0)
    + (IF BitAnd(chip_intf, CANINTF_RX1IF) # 0 THEN 1 ELSE 0)

\* overflows the chip holds in EFLG
OvrPending ==
    IF BitAnd(chip_eflg, BitOr(EFLG_RX0OVR, EFLG_RX1OVR)) # 0 THEN 1 ELSE 0

\* A frame arrives.  The driver programs "receive any message" with roll-over
\* (RXB0CTRL.BUKT): the frame goes to RXB0, to RXB1 when RXB0 is full, and
\* is lost with ERRIF and an overflow flag in EFLG when both are full.  The
\* bus stops filling the receive buffers once MaxRx frames are waiting there
\* or have been handed over or dropped, and once MaxOver overflows are
\* flagged or counted.
chip_rx ==
    /\ ~oops
    /\ chip_on
    /\ IF RxPending = 2
       THEN rx_over_errors + OvrPending < MaxOver
       ELSE rx_packets + rx_dropped + RxPending < MaxRx
    /\ IF BitAnd(chip_intf, CANINTF_RX0IF) = 0
       THEN /\ chip_intf' = BitOr(chip_intf, CANINTF_RX0IF)
            /\ UNCHANGED chip_eflg
       ELSE IF BitAnd(chip_intf, CANINTF_RX1IF) = 0
       THEN /\ chip_intf' = BitOr(chip_intf, CANINTF_RX1IF)
            /\ UNCHANGED chip_eflg
       ELSE /\ chip_intf' = BitOr(chip_intf, CANINTF_ERRIF)
            /\ chip_eflg' = BitOr(chip_eflg, EFLG_RX0OVR)
    /\ UNCHANGED <<chip_txreq, chip_on>>
    /\ UNCHANGED <<priv_flags, skb, priv_regs, message, xpc, xskb, ipc, cpc,
                   netdev, unserviced, tx_sent, load_skb, oops, lpc, sync>>
    /\ UNCHANGED stats
    /\ UNCHANGED pure
    /\ UNCHANGED opened

\* the frame in TXB0 went out on the bus
chip_tx_done ==
    /\ ~oops
    /\ chip_on
    /\ chip_txreq
    /\ chip_txreq' = FALSE
    /\ chip_intf' = BitOr(chip_intf, CANINTF_TX0IF)
    /\ UNCHANGED <<chip_eflg, chip_on>>
    /\ UNCHANGED <<priv_flags, skb, priv_regs, message, xpc, xskb, ipc, cpc,
                   netdev, unserviced, tx_sent, load_skb, oops, lpc, sync>>
    /\ UNCHANGED stats
    /\ UNCHANGED pure
    /\ UNCHANGED opened

Callback ==
    \/ mcp2515_read_flags_complete
    \/ mcp2515_read_flags_complete_locked
    \/ callback_load_txb0
    \/ callback_read_flags
    \/ mcp2515_transmit_or_read_flags
    \/ mcp2515_read_rxb0_complete
    \/ mcp2515_read_rxb1_complete
    \/ mcp2515_clear_canintf_complete
    \/ mcp2515_clear_eflg_complete
    \/ mcp2515_load_txb0_complete
    \/ mcp2515_rts_txb0_complete

Next ==
    \/ Callback
    \/ mcp2515_interrupt
    \/ interrupt_read_flags
    \/ mcp2515_start_xmit
    \/ mcp2515_start_xmit_locked
    \/ start_xmit_load_txb0
    \/ mcp2515_open
    \/ mcp2515_set_mode
    \/ mcp2515_chip_start
    \/ chip_start_requested_mode
    \/ mcp2515_close
    \/ mcp2515_chip_stop
    \/ chip_rx
    \/ chip_tx_done

Spec == Init /\ [][Next]_vars

(***************************************************************************)
(* The calculations of the driver, walked through on their own: the        *)
(* inputs are drawn at the start, the asynchronous machine stands still.   *)
(***************************************************************************)

\* the values of priv->can.ctrlmode that probe's ctrlmode_supported lets in
CtrlModes == 0 .. 15

\* chip_start, "handle can.ctrlmode": the operating mode it requests
chip_start_reqop(cm) ==
    IF BitAnd(cm, CAN_CTRLMODE_LOOPBACK) # 0 THEN CANCTRL_REQOP_LOOPBACK
    ELSE IF BitAnd(cm, CAN_CTRLMODE_LISTENONLY) # 0
         THEN CANCTRL_REQOP_LISTEN_ONLY
         ELSE CANCTRL_REQOP_NORMAL

\* chip_start: the value of its local "mode" when it writes CANCTRL; the
\* one-shot test is made on mode, not on priv->can.ctrlmode
chip_start_mode(cm) ==
    LET mode == chip_start_reqop(cm)
    IN  IF BitAnd(mode, CAN_CTRLMODE_ONE_SHOT) # 0
        THEN BitOr(mode, CANCTRL_OSM)
        ELSE mode

\* CANSTAT as the chip can report it after CANCTRL was written with v: the
\* mode is the requested one or still configuration mode, the interrupt code
\* (bits 3..1) is any
CanstatValues(v) ==
    {opmod + icod : opmod \in {BitAnd(v, CANCTRL_REQOP_MASK),
                                CANCTRL_REQOP_CONF},
                    icod \in {0, 2, 14}}

\* chip_start: mcp2515_write_reg(spi, CANCTRL, mode)
chip_start_write_canctrl ==
    /\ ppc = "ctrlmode"
    /\ canctrl' = chip_start_mode(ctrlmode)
    /\ ppc' = "wait"
    /\ UNCHANGED <<ctrlmode, reg_stat, frame, txb, rx_frame, len, reach>>
    /\ UNCHANGED driver

\* chip_start: one round of "wait for the device to enter requested mode"
chip_start_wait ==
    /\ ppc = "wait"
    /\ \E err \in BOOLEAN, stat \in CanstatValues(canctrl),
          timed_out \in BOOLEAN :
         IF err
         THEN ppc' = "failed_request" /\ UNCHANGED reg_stat
         ELSE /\ reg_stat' = stat
              /\ ppc' = IF BitAnd(stat, CANCTRL_REQOP_MASK) = canctrl
                        THEN "active"
                        ELSE IF timed_out THEN "failed_request" ELSE "wait"
    /\ UNCHANGED <<ctrlmode, canctrl, frame, txb, rx_frame, len, reach>>
    /\ UNCHANGED driver

\* x >> n, and the conversion to u8
Shr(x, n) == x \div (2 ^ n)
U8(x) == x % 256

\* on a can_id: id & CAN_EFF_FLAG, id >> n for n in 1 .. 31, (u8)id and
\* (u8)(id << n) for n in 0 .. 8
EffFlag(id) == id.b31 = 1
Shr32(id, n) == id.b31 * (2 ^ (31 - n)) + Shr(id.low, n)
U8Shl32(id, n) == (id.low % (2 ^ (8 - n))) * (2 ^ n)

\* identifiers of standard frames and of extended frames: the ends of the
\* range, the field borders of the register layout, and the examples of the
\* specification
StdIds == {0, 1, 7, 8, 291, 682, 1365, CAN_SFF_MASK}
ExtIds == {0, 1, 255, 256, 65535, 65536, 196608, 262143, 262144, 2097151,
           2097152, 180150000, 448585456, CAN_EFF_MASK}

\* the data areas of the frames
DataAreas == {<<170, 187, 204, 17, 34, 0, 255, 128>>,
              <<255, 255, 255, 255, 255, 255, 255, 255>>}

\* the valid CAN frames the walk starts from: standard and extended, data
\* and remote, every dlc
CanFrames ==
    {[can_id |-> [b31 |-> eff, low |-> id + rtr], can_dlc |-> dlc, data |-> d] :
        <<id, eff>> \in (StdIds \X {0}) \cup (ExtIds \X {1}),
        rtr \in {0, CAN_RTR_FLAG}, dlc \in 0 .. 8, d \in DataAreas}

\* Variant: the extended identifier is written without its bits 17 and 16.
set_txbuf_without_eid17_16(buf, f) ==
    LET id == f.can_id
        sid == IF EffFlag(id)
               THEN <<U8(Shr32(id, 21)),
                      U8(BitOr(BitAnd(Shr32(id, 13), 224), 8)),
                      U8(Shr32(id, 8)),
                      U8Shl32(id, 0)>>
               ELSE <<U8(Shr32(id, 3)), U8Shl32(id, 5), 0, 0>>
        dlc == IF BitAnd(id.low, CAN_RTR_FLAG) # 0
               THEN BitOr(f.can_dlc, 64)
               ELSE f.can_dlc
    IN  [i \in 1 .. 13 |->
            IF i <= 4 THEN sid[i]
            ELSE IF i = 5 THEN dlc
            ELSE IF i <= 5 + f.can_dlc THEN f.data[i - 5]
            ELSE buf[i]]

\* mcp2515_set_txbuf(buf, skb): the buffer with the frame written to it
mcp2515_set_txbuf(buf, f) ==
    LET id == f.can_id
        sid == IF EffFlag(id)
               THEN <<U8(Shr32(id, 21)),
                      U8(BitOr(BitOr(BitAnd(Shr32(id, 13), 224), 8),
                               BitAnd(Shr32(id, 16), 3))),
                      U8(Shr32(id, 8)),
                      U8Shl32(id, 0)>>
               ELSE <<U8(Shr32(id, 3)), U8Shl32(id, 5), 0, 0>>
        dlc == IF BitAnd(id.low, CAN_RTR_FLAG) # 0
               THEN BitOr(f.can_dlc, 64)
               ELSE f.can_dlc
    IN  [i \in 1 .. 13 |->
            IF i <= 4 THEN sid[i]
            ELSE IF i = 5 THEN dlc
            ELSE IF i <= 5 + f.can_dlc THEN f.data[i - 5]
            ELSE buf[i]]

\* linux/can/dev.h: get_can_dlc
get_can_dlc(i) == IF i > 8 THEN 8 ELSE i

\* mcp2515_read_rxb_complete: the frame built from rx_buf; buf[i] is rx_buf[i]
read_rxb_frame(buf) ==
    LET eid == BitOr(BitOr(BitOr(BitOr(buf[1] * (2 ^ 21),
                                       BitAnd(buf[2], 224) * (2 ^ 13)),
                                 BitAnd(buf[2], 3) * (2 ^ 16)),
                           buf[3] * (2 ^ 8)),
                     buf[4])
        sid == BitOr(buf[1] * (2 ^ 3), Shr(buf[2], 5))
        id == IF BitAnd(buf[2], RXBSIDL_IDE) # 0
              THEN [b31 |-> 1,
                    low |-> IF BitAnd(buf[5], RXBDLC_RTR) # 0
                            THEN BitOr(eid, CAN_RTR_FLAG) ELSE eid]
              ELSE [b31 |-> 0,
                    low |-> IF BitAnd(buf[2], RXBSIDL_SRR) # 0
                            THEN BitOr(sid, CAN_RTR_FLAG) ELSE sid]
        dlc == get_can_dlc(BitAnd(buf[5], 15))
    IN  [can_id |-> id,
         can_dlc |-> dlc,
         data |-> [i \in 1 .. 8 |->
                      IF BitAnd(id.low, CAN_RTR_FLAG) = 0 /\ i <= dlc
                      THEN buf[5 + i] ELSE 0]]

\* Variant: the length returned counts the instruction byte, which
\* mcp2515_load_txb0 adds once more.
set_txbuf_return_with_instruction(f) == 6 + f.can_dlc

\* mcp2515_set_txbuf: the length it returns
set_txbuf_return(f) == 5 + f.can_dlc

\* linux/can/dev.h, can_dropped_invalid_skb: the frame is not a valid CAN frame
can_dropped_invalid_skb(f) == f.can_dlc > 8

\* frames the transmit entry is handed and drops
InvalidFrames ==
    {[can_id |-> [b31 |-> 0, low |-> 291], can_dlc |-> dlc,
      data |-> <<170, 187, 204, 17, 34, 0, 255, 128>>] : dlc \in 9 .. 15}

\* receive buffers as the chip can hand them out, the length nibble beyond 8
\* included: an extended remote frame, an extended and a standard data frame
RawRxb ==
    {Bytes13(255),
     [i \in 1 .. 13 |-> IF i = 5 THEN 15 ELSE 255],
     [i \in 1 .. 13 |-> IF i = 2 THEN 224 ELSE IF i = 5 THEN 15 ELSE 170],
     [i \in 1 .. 13 |-> IF i = 2 THEN 224 ELSE IF i = 5 THEN 9 ELSE 85]}

\* a step touched the first n bytes of a buffer
Reach(n) == IF n > reach THEN n ELSE reach

\* mcp2515_start_xmit: can_dropped_invalid_skb
start_xmit_dropped ==
    /\ ppc = "frame"
    /\ can_dropped_invalid_skb(frame)
    /\ ppc' = "dropped"
    /\ UNCHANGED <<mode_request, codec, len, reach>>
    /\ UNCHANGED driver

\* mcp2515_load_txb0: buf[0] is the instruction, mcp2515_set_txbuf(buf + 1,
\* skb) writes the frame behind it and its return value plus one is the length
load_txb0_set_txbuf ==
    /\ ppc = "frame"
    /\ ~can_dropped_invalid_skb(frame)
    /\ txb' = mcp2515_set_txbuf(txb, frame)
    /\ len' = set_txbuf_return(frame) + 1
    /\ reach' = Reach(1 + 5 + frame.can_dlc)
    /\ ppc' = "loaded"
    /\ UNCHANGED <<mode_request, frame, rx_frame>>
    /\ UNCHANGED driver

\* mcp2515_read_flags: buf[0 .. 3], len 4
read_flags_transfer ==
    /\ ppc = "message"
    /\ len' = 4
    /\ reach' = Reach(4)
    /\ ppc' = "read_flags"
    /\ UNCHANGED <<mode_request, codec>>
    /\ UNCHANGED driver

\* mcp2515_read_rxb: memset(buf, 0, 14), len 14
read_rxb_transfer ==
    /\ ppc = "message"
    /\ len' = 14
    /\ reach' = Reach(14)
    /\ \E n \in {0, 1} : ppc' = IF n = 0 THEN "read_rxb0" ELSE "read_rxb1"
    /\ UNCHANGED <<mode_request, codec>>
    /\ UNCHANGED driver

\* mcp2515_clear_canintf: buf[0 .. 3], len 4
clear_canintf_transfer ==
    /\ ppc = "message"
    /\ len' = 4
    /\ reach' = Reach(4)
    /\ ppc' = "clear_canintf"
    /\ UNCHANGED <<mode_request, codec>>
    /\ UNCHANGED driver

\* mcp2515_clear_eflg: buf[0 .. 3], len 4
clear_eflg_transfer ==
    /\ ppc = "message"
    /\ len' = 4
    /\ reach' = Reach(4)
    /\ ppc' = "clear_eflg"
    /\ UNCHANGED <<mode_request, codec>>
    /\ UNCHANGED driver

\* mcp2515_rts_txb0: buf[0], len 1
rts_txb0_transfer ==
    /\ ppc = "message"
    /\ len' = 1
    /\ reach' = Reach(1)
    /\ ppc' = "rts_txb0"
    /\ UNCHANGED <<mode_request, codec>>
    /\ UNCHANGED driver

\* The SPI core sends len bytes of tx_buf and stores len bytes in rx_buf.
\* After a READ_RXB the receive buffer holds what the chip sent; the callbacks
\* of the other messages read rx_buf[2] and rx_buf[3] at most.
spi_transfer ==
    /\ ppc \in {"read_flags", "read_rxb0", "read_rxb1", "clear_canintf",
                "clear_eflg", "rts_txb0"}
    /\ IF ppc \in {"read_rxb0", "read_rxb1"}
       THEN /\ txb' \in RawRxb
            /\ reach' = Reach(len)
            /\ ppc' = "received"
       ELSE /\ reach' = IF ppc = "read_flags" THEN Reach(4) ELSE Reach(len)
            /\ ppc' = "completed"
            /\ UNCHANGED txb
    /\ UNCHANGED <<mode_request, frame, rx_frame, len>>
    /\ UNCHANGED driver

\* mcp2515_read_rxb_complete builds the frame from rx_buf[1 .. 13]: from the
\* bytes a READ_RXB brought back, which are those of the frame just encoded
\* or any the chip sent.  It reads buf[1 .. 5] and copies can_dlc bytes from
\* buf + 6 unless the frame is a remote frame.
read_rxb_complete_frame ==
    /\ ppc \in {"loaded", "received"}
    /\ rx_frame' = read_rxb_frame(txb)
    /\ reach' = Reach(IF BitAnd(rx_frame'.can_id.low, CAN_RTR_FLAG) = 0
                      THEN 6 + rx_frame'.can_dlc ELSE 6)
    /\ ppc' = IF ppc = "loaded" THEN "decoded" ELSE "delivered"
    /\ UNCHANGED <<mode_request, frame, txb, len>>
    /\ UNCHANGED driver

\* The walk through the mode request starts from any supported ctrlmode; the
\* walk through encoding and decoding starts from any of the frames, with the
\* buffer holding the bytes of an earlier transaction; the walk through the
\* set-up of a message starts with the buffers untouched.
PureInit ==
    /\ DriverInit
    /\ TransferOff
    /\ \/ /\ ctrlmode \in CtrlModes
          /\ canctrl = CANCTRL_REQOP_CONF
          /\ reg_stat = CANCTRL_REQOP_CONF
          /\ CodecOff
          /\ ppc = "ctrlmode"
       \/ /\ ModeOff
          /\ frame \in CanFrames \cup InvalidFrames
          /\ txb \in {Bytes13(0), Bytes13(255)}
          /\ rx_frame = ZeroFrame
          /\ ppc = "frame"
       \/ /\ ModeOff
          /\ CodecOff
          /\ ppc = "message"

PureNext ==
    \/ chip_start_write_canctrl
    \/ chip_start_wait
    \/ start_xmit_dropped
    \/ load_txb0_set_txbuf
    \/ read_flags_transfer
    \/ read_rxb_transfer
    \/ clear_canintf_transfer
    \/ clear_eflg_transfer
    \/ rts_txb0_transfer
    \/ spi_transfer
    \/ read_rxb_complete_frame

PureSpec == PureInit /\ [][PureNext]_vars

(***************************************************************************)
(* Scheduling: a transfer the SPI core accepted is executed and its        *)
(* callback or its caller runs on; the interrupt handler and the transmit  *)
(* entry run to their end once entered.  Nothing forces the chip, the      *)
(* interrupt line or the host to act.                                      *)
(***************************************************************************)
LiveSpec ==
    /\ Spec
    /\ WF_vars(Callback)
    /\ WF_vars(interrupt_read_flags)
    /\ WF_vars(mcp2515_start_xmit_locked)
    /\ WF_vars(start_xmit_load_txb0)
    /\ WF_vars(mcp2515_chip_start)
    /\ WF_vars(chip_start_requested_mode)
    /\ WF_vars(mcp2515_chip_stop)

(***************************************************************************)
(* Properties.                                                             *)
(***************************************************************************)

\* a context stands between its critical section and the submit it decided on
Dispatching ==
    \/ cpc \in {"load_txb0", "read_flags"}
    \/ ipc = "read_flags"
    \/ xpc = "load_txb0"

\* the event chain has an owner: a message in flight or a context that will
\* submit one
ChainOwners ==
    inflight
    + (IF cpc # "idle" THEN 1 ELSE 0)
    + (IF ipc = "read_flags" THEN 1 ELSE 0)
    + (IF xpc = "load_txb0" THEN 1 ELSE 0)

\* the event chain died: busy is set and nothing will submit the next message
ChainDead == busy /\ ChainOwners = 0

\* a READ_FLAGS is in flight
FlagRead == inflight > 0 /\ complete = "read_flags"

\* C1: at most one asynchronous SPI transaction is in flight, at most one
\* context is about to submit one and none while one is in flight, and busy is
\* set whenever a transaction is in flight or about to be submitted.
C1_SingleTransaction ==
    /\ inflight <= 1
    /\ ChainOwners <= 1
    /\ (inflight > 0 \/ Dispatching => busy)

\* C1 witness: a transaction is in flight after both an interrupt and a
\* transmit arrived while the machine was busy.
C1_Witness == inflight = 1 /\ interrupt /\ transmit /\ busy

\* C2: every firing of the handler is followed by a READ_FLAGS submitted
\* after it, provided every submission is accepted.
C2_InterruptServiced == unserviced ~> (~unserviced \/ failed)

\* C2 witness: the handler fired while a transaction was in flight.
C2_Witness == unserviced /\ interrupt /\ inflight = 1 /\ ~failed

\* C2 as long as the kernel runs: the same, up to a NULL dereference.
C2_ServicedUnlessOops == unserviced ~> (~unserviced \/ failed \/ oops)

\* C3: a failed submission leaves busy set, and an interrupt arriving after
\* the chain died makes the handler issue READ_FLAGS.
C3_InterruptRecovers ==
    [][/\ (~failed /\ failed' => busy')
       /\ (ChainDead /\ mcp2515_interrupt => ipc' = "read_flags")]_vars

\* C3 witness: the handler ran after the chain died and only set the flag.
C3_Witness == ChainDead /\ failed /\ interrupt /\ unserviced /\ ~oops

\* C3, the part that holds: a chain only dies through a failed submission,
\* and busy stays set from then on.
C3_DeadForGood ==
    /\ [](ChainDead /\ ~oops => failed)
    /\ [][ChainDead => ChainDead']_vars

\* C4: while busy is clear, transmit and interrupt are clear; the two flags
\* are only set while busy is set, and busy is only cleared while both are
\* clear.
C4_FlagsOnlyWhileBusy ==
    /\ [](~busy => ~transmit /\ ~interrupt)
    /\ [][/\ (~transmit /\ transmit' => busy)
          /\ (~interrupt /\ interrupt' => busy)
          /\ (busy /\ ~busy' => ~transmit /\ ~interrupt)]_vars

\* C4 witness: the machine went idle again after an event chain.
C4_Witness == ~busy /\ complete = "read_flags" /\ inflight = 0 /\ up

\* C5 as stated: after a READ_FLAGS dispatch interrupt is clear unless the
\* handler fired since that dispatch.
C5_ClearedAtEveryReadFlags == interrupt => unserviced

\* C5: interrupt is set exactly by the handler finding busy set; it is cleared
\* only by the drain of a flag read that returned CANINTF = 0 with transmit
\* clear, which goes on to READ_FLAGS; the READ_FLAGS started after READ_RXB,
\* CLEAR_CANINTF, CLEAR_EFLG and RTS_TXB0 leave it as it is.
C5_ClearedOnlyByDrain ==
    [][/\ (mcp2515_interrupt /\ busy => interrupt')
       /\ (~interrupt /\ interrupt' => ipc = "idle" /\ busy /\ unserviced')
       /\ (interrupt /\ ~interrupt' =>
             /\ cpc = "drain" /\ canintf = 0 /\ ~transmit
             /\ cpc' = "read_flags")
       /\ (cpc = "drain" /\ cpc' = "read_flags" => interrupt /\ ~interrupt')
       /\ (\/ cpc = "transmit_or_read_flags"
           \/ (inflight > 0 /\ complete \in {"clear_canintf", "clear_eflg",
                                             "rts_txb0"})
           => interrupt' = interrupt \/ (mcp2515_interrupt /\ busy))]_vars

\* C5 witness: a READ_FLAGS the machine started itself is in flight, no
\* interrupt fired since, and interrupt is still set.
C5_Witness ==
    interrupt /\ ~unserviced /\ complete = "read_flags" /\ inflight = 1

\* C6, the flags: transmit is set exactly by the transmit entry finding busy
\* set; the transmit entry starts LOAD_TXB0 itself only with transmit clear;
\* a callback turns to LOAD_TXB0 exactly in the locked step that clears
\* transmit.
C6_FlagDiscipline ==
    /\ [][/\ (mcp2515_start_xmit_locked /\ busy => transmit')
          /\ (~transmit /\ transmit' => xpc = "lock" /\ busy)
          /\ (transmit /\ ~transmit' =>
                /\ cpc \in {"drain", "transmit_or_read_flags"}
                /\ cpc' = "load_txb0")
          /\ (cpc # "load_txb0" /\ cpc' = "load_txb0" =>
                transmit /\ ~transmit')
          /\ (xpc # "load_txb0" /\ xpc' = "load_txb0" =>
                ~transmit /\ ~transmit')]_vars
    /\ [](xpc = "load_txb0" => ~transmit)

\* C6: the flags as above, and a callback that cleared transmit has a pending
\* frame whose LOAD_TXB0 it submits.
C6_TransmitFlag ==
    /\ C6_FlagDiscipline
    /\ [](cpc = "load_txb0" => skb # NULL)

\* C6 witness: a callback cleared transmit and is about to load the frame.
C6_Witness == cpc = "load_txb0" /\ ~transmit /\ skb # NULL /\ busy

\* C7, the transitions: priv->skb goes from NULL to a frame only when the
\* transmit entry accepts one, which always stores it, and from a frame to
\* NULL only at the completion of a CLEAR_CANINTF whose cached CANINTF has
\* TX0IF, which always clears it.
C7_Transitions ==
    [][/\ (skb = NULL /\ skb' # NULL => xpc = "idle" /\ xpc' = "lock")
       /\ (xpc = "idle" /\ xpc' = "lock" => skb' = NewFrame)
       /\ (skb # NULL /\ skb' = NULL =>
             /\ complete = "clear_canintf" /\ inflight > 0
             /\ BitAnd(canintf, CANINTF_TX0IF) # 0)
       /\ (mcp2515_clear_canintf_complete /\ BitAnd(canintf, CANINTF_TX0IF) # 0
             => skb' = NULL)]_vars

\* C7: the transitions as above, and a pending frame is never replaced by
\* another.
C7_PendingSkb ==
    /\ C7_Transitions
    /\ [][skb # NULL /\ skb' # NULL => skb' = skb]_vars

\* C7 witness: the transmit entry accepted a frame.
C7_Witness == skb # NULL /\ xpc = "lock" /\ xskb = skb

\* C8, safety: busy is cleared only by the completion of a READ_FLAGS that
\* returned CANINTF = 0, and then only with nothing pending.
C8_BusyClearedOnlyOnZero ==
    [][busy /\ ~busy' =>
         /\ cpc = "drain" /\ complete = "read_flags" /\ canintf = 0
         /\ ~transmit /\ ~interrupt]_vars

\* C8: busy is cleared only so, and, provided every submission is accepted,
\* a busy machine comes back to READ_FLAGS or goes idle.
C8_ReadFlagsUntilZero ==
    /\ C8_BusyClearedOnlyOnZero
    /\ (busy /\ ~FlagRead ~> (FlagRead \/ ~busy \/ failed))

\* C8 witness: a flag read returned CANINTF = 0 and the drain is to decide.
C8_Witness == cpc = "drain" /\ canintf = 0 /\ busy /\ ~failed

\* C8 as long as the kernel runs: the same, up to a NULL dereference.
C8_UnlessOops ==
    /\ C8_BusyClearedOnlyOnZero
    /\ (busy /\ ~FlagRead ~> (FlagRead \/ ~busy \/ failed \/ oops))

\* C9: a frame is finalised only after its own LOAD_TXB0 and RTS_TXB0
\* completed.
C9_CompletionAfterRts == [][skb # NULL /\ skb' = NULL => tx_sent]_vars

\* C9 witness: the TX0IF of a frame whose RTS_TXB0 completed is being cleared.
C9_Witness ==
    /\ skb # NULL /\ tx_sent /\ complete = "clear_canintf" /\ inflight = 1
    /\ BitAnd(canintf, CANINTF_TX0IF) # 0

\* C10: the transmit queue is never running while a frame is pending.
C10_QueueStoppedWhilePending == skb # NULL => ~queue

\* C10 witness: a frame is pending and the queue is stopped.
C10_Witness == skb # NULL /\ ~queue /\ up /\ inflight = 1

\* the message of callback `cb` is in flight and this step is its completion
Completes(cb) ==
    /\ inflight > 0 /\ complete = cb /\ cpc = "idle"
    /\ (complete' # cb \/ cpc' # "idle")

\* this step hands one received frame to the host, or drops it
RxHandled == rx_packets' + rx_dropped' = rx_packets + rx_dropped + 1

\* C11: a receive buffer is read only when its flag was set in the most recent
\* flag read; a flag read with RX0IF is followed by READ_RXB0, also when RX1IF
\* is set with it, and one with RX1IF alone by READ_RXB1; the completion of
\* READ_RXB0 hands its frame over and, when RX1IF was set in that flag read,
\* issues READ_RXB1 at once, without a flag read in between; frames are handed
\* over at the completion of READ_RXB0 or READ_RXB1 only, one per completion.
C11_RxOrder ==
    /\ [](inflight > 0 /\ complete = "read_rxb0"
            => BitAnd(canintf, CANINTF_RX0IF) # 0)
    /\ [](inflight > 0 /\ complete = "read_rxb1"
            => BitAnd(canintf, CANINTF_RX1IF) # 0)
    /\ [][/\ (Completes("read_flags") /\ BitAnd(canintf', CANINTF_RX0IF) # 0
               => complete' = "read_rxb0")
          /\ (Completes("read_flags") /\ BitAnd(canintf', CANINTF_RX0IF) = 0
                                      /\ BitAnd(canintf', CANINTF_RX1IF) # 0
               => complete' = "read_rxb1")
          /\ (complete # "read_rxb0" /\ complete' = "read_rxb0"
               => Completes("read_flags"))
          /\ (complete # "read_rxb1" /\ complete' = "read_rxb1"
               => \/ Completes("read_rxb0")
                  \/ (/\ Completes("read_flags")
                      /\ BitAnd(canintf', CANINTF_RX0IF) = 0))
          /\ (Completes("read_rxb0")
               => /\ RxHandled
                  /\ canintf' = canintf
                  /\ IF BitAnd(canintf, CANINTF_RX1IF) # 0
                     THEN complete' = "read_rxb1"
                     ELSE cpc' = "transmit_or_read_flags")
          /\ (Completes("read_rxb1")
               => RxHandled /\ cpc' = "transmit_or_read_flags")
          /\ (<<rx_packets, rx_dropped>>' # <<rx_packets, rx_dropped>>
               => /\ Completes("read_rxb0") \/ Completes("read_rxb1")
                  /\ RxHandled)]_vars

\* C11 witness: the flag read had RX0IF and RX1IF, the frame of RXB0 has been
\* handed over and READ_RXB1 is in flight.
C11_Witness ==
    /\ inflight = 1 /\ complete = "read_rxb1"
    /\ BitAnd(canintf, CANINTF_RX0IF) # 0
    /\ BitAnd(canintf, CANINTF_RX1IF) # 0
    /\ rx_packets = 1 /\ rx_dropped = 0

\* the steps that run with priv->lock held
LockHeld ==
    \/ mcp2515_interrupt
    \/ mcp2515_start_xmit_locked
    \/ mcp2515_read_flags_complete_locked
    \/ mcp2515_transmit_or_read_flags

\* C12 as stated: busy, interrupt, transmit and priv->skb change only in a
\* critical section of priv->lock.
C12_AllUnderLock == [][<<priv_flags, skb>>' # <<priv_flags, skb>> => LockHeld]_vars

\* C12: busy, interrupt and transmit change only in a critical section of
\* priv->lock; priv->skb is outside the lock: the transmit entry stores it
\* before it takes the lock, and the completion of CLEAR_CANINTF clears it
\* without the lock.
C12_FlagsUnderLock ==
    [][/\ (priv_flags' # priv_flags => LockHeld)
       /\ (skb' # skb => ~LockHeld)
       /\ (skb' # skb =>
             \/ xpc = "idle" /\ xpc' = "lock"
             \/ Completes("clear_canintf"))]_vars

\* C12 witness: the transmit entry stored the frame, then found busy set under
\* the lock and set transmit.
C12_Witness == transmit /\ skb # NULL /\ xpc = "idle" /\ busy /\ inflight = 1

\* a flag read that found a receive flag is being served
RxSnapshot == BitAnd(canintf, BitOr(CANINTF_RX0IF, CANINTF_RX1IF)) # 0

\* C13: when the last READ_RXB of a flag read has completed, the callback
\* clears a set transmit flag and its next transaction is the LOAD_TXB0 of the
\* pending frame, and with transmit clear it is READ_FLAGS; transmit is never
\* left set across that decision, whatever CANINTF was.
C13_TransmitAfterRxb ==
    /\ [][/\ (Completes("read_rxb1") \/ (Completes("read_rxb0")
                                        /\ BitAnd(canintf, CANINTF_RX1IF) = 0)
               => cpc' = "transmit_or_read_flags")
          /\ (cpc = "transmit_or_read_flags" /\ cpc' # cpc
               => IF transmit
                  THEN cpc' = "load_txb0" /\ ~transmit'
                  ELSE cpc' = "read_flags" /\ ~transmit')
          /\ (cpc = "load_txb0" /\ RxSnapshot /\ (cpc' # cpc \/ oops')
               => /\ complete' = "load_txb0"
                  /\ tx_buf' = [ins |-> "LOAD_TXB0", arg |-> skb]
                  /\ ~oops')]_vars

\* C13 witness: READ_RXB completed with transmit set, and the callback is about
\* to load the pending frame while CANINTF is not zero.
C13_Witness == cpc = "load_txb0" /\ RxSnapshot /\ skb # NULL /\ ~transmit /\ busy

\* the CANINTF bits other than the two receive flags
NonRx(intf) == BitClear(intf, BitOr(CANINTF_RX0IF, CANINTF_RX1IF))

ReadRxb == {"read_rxb0", "read_rxb1"}

\* C14 as stated: after the READ_RXB of the last flagged buffer of a flag read
\* that also had other flags, with no transmit pending, the next transaction
\* issued is the BIT-MODIFY that clears those other flags.
C14_ClearAfterRxb ==
    [][/\ complete \in ReadRxb /\ complete' \notin ReadRxb \cup {"load_txb0"}
       /\ NonRx(canintf) # 0
       => /\ complete' = "clear_canintf"
          /\ tx_buf' = [ins |-> "BIT_MODIFY_CANINTF", arg |-> NonRx(canintf)]]_vars

\* C14: after a flag read with receive flags the transactions are READ_RXB for
\* each flagged buffer, RXB0 first, and then, with no transmit pending,
\* READ_FLAGS again, whatever other flags that flag read had.  BIT-MODIFY on
\* CANINTF is issued only after a flag read that returned no receive flag and
\* was not zero, with that value as its mask; its completion finalises the
\* pending frame exactly when the value had TX0IF, and goes on with
\* BIT-MODIFY on EFLG with mask = EFLG when EFLG was not zero, else with
\* READ_FLAGS; the completion of BIT-MODIFY on EFLG bumps rx_over_errors
\* exactly when EFLG had RX0OVR or RX1OVR, and goes on with READ_FLAGS.
C14_ChainOrder ==
    [][/\ (complete \in ReadRxb /\ complete' # complete
            => \/ complete = "read_rxb0" /\ complete' = "read_rxb1"
                  /\ BitAnd(canintf, CANINTF_RX1IF) # 0
               \/ complete' = "read_flags" /\ cpc = "read_flags"
               \/ complete' = "load_txb0")
       /\ (cpc = "transmit_or_read_flags" /\ ~transmit /\ cpc' # cpc
            => cpc' = "read_flags")
       /\ (complete # "clear_canintf" /\ complete' = "clear_canintf"
            => /\ Completes("read_flags")
               /\ canintf' # 0 /\ NonRx(canintf') = canintf'
               /\ tx_buf' = [ins |-> "BIT_MODIFY_CANINTF", arg |-> canintf'])
       /\ (Completes("read_flags") /\ canintf' # 0 /\ NonRx(canintf') = canintf'
            => complete' = "clear_canintf")
       /\ (Completes("clear_canintf")
            => /\ IF BitAnd(canintf, CANINTF_TX0IF) # 0
                  THEN skb' = NULL /\ queue'
                  ELSE skb' = skb /\ queue' = queue
               /\ IF eflg # 0
                  THEN /\ complete' = "clear_eflg"
                       /\ tx_buf' = [ins |-> "BIT_MODIFY_EFLG", arg |-> eflg]
                  ELSE complete' = "read_flags")
       /\ (complete # "clear_eflg" /\ complete' = "clear_eflg"
            => Completes("clear_canintf"))
       /\ (Completes("clear_eflg")
            => /\ complete' = "read_flags"
               /\ rx_over_errors' =
                    IF BitAnd(eflg, BitOr(EFLG_RX0OVR, EFLG_RX1OVR)) # 0
                    THEN rx_over_errors + 1 ELSE rx_over_errors)
       /\ (rx_over_errors' # rx_over_errors => Completes("clear_eflg"))]_vars

\* C14 witness: both receive buffers were read after a flag read of
\* RX0IF | RX1IF | ERRIF with EFLG = RX0OVR, and the flags are read again.
C14_Witness ==
    /\ canintf = BitOr(BitOr(CANINTF_RX0IF, CANINTF_RX1IF), CANINTF_ERRIF)
    /\ eflg = EFLG_RX0OVR
    /\ complete = "read_flags" /\ inflight = 1
    /\ rx_packets + rx_dropped = 2

\* the control-mode flags ask for one-shot mode
OneShotRequested == BitAnd(ctrlmode, CAN_CTRLMODE_ONE_SHOT) # 0

\* C15 as stated: once bring-up has written CANCTRL, the value written is the
\* requested operating mode, with the OSM bit exactly when one-shot mode is
\* requested in the control-mode flags; and bring-up has succeeded only when
\* CANSTAT reported the requested operating mode.
C15_CanctrlValue ==
    /\ ppc \in {"wait", "active", "failed_request"}
         => canctrl = IF OneShotRequested
                      THEN BitOr(chip_start_reqop(ctrlmode), CANCTRL_OSM)
                      ELSE chip_start_reqop(ctrlmode)
    /\ ppc = "active"
         => BitAnd(reg_stat, CANCTRL_REQOP_MASK) = chip_start_reqop(ctrlmode)

\* C15 witness: bring-up with one-shot mode requested wrote CANCTRL and
\* succeeded on the CANSTAT it read.
C15_Witness == ppc = "active" /\ OneShotRequested

\* the step the chain takes when a READ_RXB completes, as the flag read and the
\* completed transaction determine it
RxbNextStep ==
    IF complete = "read_rxb0" /\ BitAnd(canintf, CANINTF_RX1IF) # 0
    THEN complete' = "read_rxb1" /\ cpc' = "idle"
    ELSE complete' = complete /\ cpc' = "transmit_or_read_flags"

\* C16: when a READ_RXB completes and the frame cannot be allocated, rx_dropped
\* grows by one and rx_packets stays; rx_dropped changes at no other step; the
\* chain goes on with the step it takes after a delivery as well (READ_RXB1
\* after RXB0 when RX1IF was read, else the choice between LOAD_TXB0 and
\* READ_FLAGS), so the callback never returns without a successor because of
\* the allocation.
C16_AllocFailure ==
    [][/\ (rx_dropped' # rx_dropped
            => /\ Completes("read_rxb0") \/ Completes("read_rxb1")
               /\ rx_dropped' = rx_dropped + 1
               /\ rx_packets' = rx_packets
               /\ RxbNextStep)
       /\ (rx_packets' # rx_packets => rx_dropped' = rx_dropped /\ RxbNextStep)
       /\ (cpc = "transmit_or_read_flags" /\ cpc' # cpc
            => cpc' \in {"load_txb0", "read_flags"} /\ stats' = stats)]_vars

\* C16 witness: the frame of RXB0 was dropped for lack of memory, nothing was
\* delivered, and READ_RXB1 is in flight.
C16_Witness ==
    /\ rx_dropped = 1 /\ rx_packets = 0
    /\ inflight = 1 /\ complete = "read_rxb1" /\ busy

\* the errors mcp2515_open returns: from open_candev, from request_irq, and
\* from chip_start (a failed SPI transfer, or -EBUSY after the timeout of the
\* mode transition)
OpenErrors == {"candev_err", "irq_err", "EIO", "EBUSY"}

\* mcp2515_open is between its call and its return
Opening == lpc \in {"open_reset", "open_config"}

\* this step is the return of mcp2515_open
OpenReturns == open_err' # open_err /\ open_err' # "none"

DataFrame(f) == BitAnd(f.can_id.low, CAN_RTR_FLAG) = 0

\* C18: a valid frame that is not a remote frame, encoded by mcp2515_set_txbuf
\* and decoded by mcp2515_read_rxb_complete from the same 13 bytes, comes back
\* with the same identifier, the same standard/extended flag, still not a
\* remote frame, the same dlc and the same first dlc data bytes.
C18_RoundTrip ==
    ppc = "decoded" /\ DataFrame(frame)
        => /\ BitAnd(rx_frame.can_id.low, CAN_EFF_MASK)
                = BitAnd(frame.can_id.low, CAN_EFF_MASK)
           /\ EffFlag(rx_frame.can_id) = EffFlag(frame.can_id)
           /\ DataFrame(rx_frame)
           /\ rx_frame.can_dlc = frame.can_dlc
           /\ \A i \in 1 .. frame.can_dlc : rx_frame.data[i] = frame.data[i]

\* C18 witness: the extended frame 0x1ABCDEF0 with two data bytes went through
\* the encoder and the decoder, the buffer holding 0xFF after its payload.
C18_Witness ==
    /\ ppc = "decoded"
    /\ frame.can_id = [b31 |-> 1, low |-> 448585456]
    /\ frame.can_dlc = 2
    /\ txb[8] = 255

\* C19 as stated: between the moment busy is set and the moment it is cleared,
\* at most one transaction is submitted.
C19_OnePerSpan == span_tx <= 1

\* C19, amended: within one busy span at most one transaction is in flight at
\* any time, and transactions are submitted only while busy is set; the first
\* of a span is submitted by the interrupt handler or the transmit entry that
\* set busy, every further one by the completion callback of the one before
\* it, after that one completed.
C19_OneAtATime ==
    /\ [](inflight <= 1 /\ (span_tx > 0 => busy))
    /\ [][/\ (span_tx = 0 /\ span_tx' = 1
               => /\ busy /\ inflight = 0 /\ cpc = "idle"
                  /\ ipc = "read_flags" \/ xpc = "load_txb0"
                  /\ ipc' # ipc \/ xpc' # xpc)
          /\ (span_tx > 0 /\ span_tx' > span_tx
               => /\ ipc' = ipc /\ xpc' = xpc
                  /\ \/ cpc # "idle" /\ inflight = 0
                     \/ cpc = "idle" /\ inflight = 1 /\ inflight' = 1)
          /\ (span_tx > 0 /\ span_tx' = 0 => busy /\ ~busy' /\ inflight = 0)
          /\ (busy /\ ~busy' => span_tx' = 0)]_vars

\* C19 witness: the second transaction of a busy span is in flight, the READ_RXB0
\* that followed the handler's READ_FLAGS.
C19_Witness == span_tx = 2 /\ inflight = 1 /\ complete = "read_rxb0" /\ busy

\* C20 as stated: while a transaction is in flight the TX buffer is written by
\* no one but the completion callback of that transaction, which is the step
\* that takes it out of flight and builds the next one.
C20_BufferOwned ==
    [][inflight > 0 /\ tx_buf' # tx_buf
        => cpc = "idle" /\ lpc' = lpc /\ ipc' = ipc /\ xpc' = xpc]_vars

\* C20 witness: chip_start has built its register writes in the TX buffer and
\* waits for them, and the asynchronous message queued before that is still
\* in flight, now with the bytes of chip_start.
C20_Witness ==
    /\ lpc \in {"open_config", "mode_config"}
    /\ inflight = 1 /\ complete = "read_flags"
    /\ tx_buf = [ins |-> "WRITE", arg |-> 0]

\* the critical section of the drain is left in this step
Drains == cpc = "drain" /\ cpc' # "drain"

\* C21: when a READ_FLAGS completed with CANINTF = 0, one locked step decides,
\* transmit first: with transmit set it is cleared, interrupt and busy stay
\* and LOAD_TXB0 of the pending frame is issued next; else with interrupt set
\* it is cleared, busy stays and READ_FLAGS is issued next; else busy is
\* cleared and nothing is issued.
C21_DrainPriority ==
    /\ [](cpc = "drain" => canintf = 0 /\ busy /\ inflight = 0)
    /\ [][/\ (Drains /\ transmit
               => /\ ~transmit' /\ interrupt' = interrupt /\ busy'
                  /\ cpc' = "load_txb0" /\ message' = message)
          /\ (Drains /\ ~transmit /\ interrupt
               => /\ ~interrupt' /\ ~transmit' /\ busy'
                  /\ cpc' = "read_flags" /\ message' = message)
          /\ (Drains /\ ~transmit /\ ~interrupt
               => /\ ~busy' /\ ~transmit' /\ ~interrupt'
                  /\ cpc' = "idle" /\ inflight' = 0
                  /\ complete' = complete /\ tx_buf' = tx_buf)
          /\ (cpc = "load_txb0" /\ canintf = 0 /\ (cpc' # cpc \/ oops')
               => /\ complete' = "load_txb0"
                  /\ tx_buf' = [ins |-> "LOAD_TXB0", arg |-> skb]
                  /\ priv_flags' = priv_flags
                  /\ ~oops')
          /\ (cpc = "read_flags" /\ canintf = 0 /\ cpc' # cpc
               => /\ complete' = "read_flags"
                  /\ tx_buf' = [ins |-> "READ", arg |-> 0]
                  /\ priv_flags' = priv_flags)]_vars

\* C21 witness: the drain found transmit and interrupt both set, cleared
\* transmit only, and the callback is about to load the pending frame.
C21_Witness ==
    /\ cpc = "load_txb0" /\ canintf = 0 /\ complete = "read_flags"
    /\ ~transmit /\ interrupt /\ busy /\ skb # NULL

\* a CLEAR_CANINTF is dispatched in this step
ClearCanintfIssued == complete # "clear_canintf" /\ complete' = "clear_canintf"

\* the chip's flag f goes from set to clear in this step
ChipFlagCleared(f) == BitAnd(chip_intf, f) # 0 /\ BitAnd(chip_intf', f) = 0

\* the transfer of the READ_RXB named cb with instruction ins ends in this step
RxbRead(cb, ins) ==
    /\ inflight > 0 /\ cpc = "idle" /\ complete = cb /\ tx_buf.ins = ins
    /\ (complete' # cb \/ cpc' # "idle")

\* a synchronous RESET of bring-up or stop is executed in this step
ChipReset ==
    /\ lpc \in {"open_reset", "mode_reset", "close_reset"}
    /\ lpc' # lpc
    /\ chip_intf' = 0

\* every CLEAR_CANINTF is dispatched by the completion of a flag read that was
\* not zero and had no receive flag, with the flags read as its mask, which is
\* the flags read without the receive flags; no BIT-MODIFY on CANINTF is built
\* otherwise
ClearCanintfMask ==
    /\ (ClearCanintfIssued
          => /\ Completes("read_flags")
             /\ canintf' # 0 /\ ~RxSnapshot'
             /\ tx_buf' = [ins |-> "BIT_MODIFY_CANINTF", arg |-> canintf']
             /\ tx_buf'.arg = NonRx(canintf'))
    /\ (tx_buf'.ins = "BIT_MODIFY_CANINTF" /\ tx_buf' # tx_buf
          => ClearCanintfIssued)

\* C22 as stated: CLEAR_CANINTF is dispatched as above, and a receive flag of
\* the chip is cleared by nothing but the READ_RXB of its buffer.
C22_RxClearedByReadOnly ==
    [][/\ ClearCanintfMask
       /\ (ChipFlagCleared(CANINTF_RX0IF) => RxbRead("read_rxb0", "READ_RXB0"))
       /\ (ChipFlagCleared(CANINTF_RX1IF) => RxbRead("read_rxb1", "READ_RXB1"))]_vars

\* C22, amended: CLEAR_CANINTF is dispatched as above, and a receive flag of
\* the chip is cleared by the READ_RXB of its buffer or by the RESET that
\* bring-up and stop send, never by a BIT-MODIFY.
C22_RxNotClearedByBitModify ==
    [][/\ ClearCanintfMask
       /\ (ChipFlagCleared(CANINTF_RX0IF)
            => RxbRead("read_rxb0", "READ_RXB0") \/ ChipReset)
       /\ (ChipFlagCleared(CANINTF_RX1IF)
            => RxbRead("read_rxb1", "READ_RXB1") \/ ChipReset)]_vars

\* C22 witness: a CLEAR_CANINTF is in flight with the flags read as its mask,
\* and a frame that arrived since has set RX0IF in the chip.
C22_Witness ==
    /\ inflight = 1 /\ complete = "clear_canintf"
    /\ tx_buf = [ins |-> "BIT_MODIFY_CANINTF", arg |-> canintf]
    /\ BitAnd(chip_intf, CANINTF_RX0IF) # 0

\* C23: every message the driver sets up has the length of its kind, 4 for
\* READ_FLAGS, CLEAR_CANINTF and CLEAR_EFLG, 14 for READ_RXB0 and READ_RXB1,
\* 1 for RTS_TXB0, 6 + dlc for LOAD_TXB0; a frame that gets as far as
\* LOAD_TXB0 has a dlc of 0 to 8; no length exceeds the 14 bytes of the
\* buffers, and no step reads or writes beyond them.
C23_TransferFits ==
    /\ len <= BufSize
    /\ reach <= BufSize
    /\ (ppc \in {"read_flags", "clear_canintf", "clear_eflg"} => len = 4)
    /\ (ppc \in {"read_rxb0", "read_rxb1"} => len = 14)
    /\ (ppc = "rts_txb0" => len = 1)
    /\ (ppc = "loaded" => frame.can_dlc \in 0 .. 8 /\ len = 6 + frame.can_dlc)

\* C23 witness: a frame with eight data bytes is loaded, the transfer uses
\* all 14 bytes.
C23_Witness == ppc = "loaded" /\ frame.can_dlc = 8 /\ len = 14 /\ reach = 14

\* mcp2515_close has returned and no open followed it
Closed == ~up /\ lpc = "idle" /\ open_err = "0"

\* C24: once close has returned, whatever the state it was called in, no
\* asynchronous SPI transaction is in flight or gets issued, no completion
\* callback is running, busy, transmit and interrupt are false and the pending
\* skb is NULL: the machine is idle when the next open begins.
C24_CloseIdle ==
    Closed => /\ inflight = 0
              /\ cpc = "idle"
              /\ ~busy /\ ~transmit /\ ~interrupt
              /\ skb = NULL

\* C24 witness: close has returned while the event chain is in flight and a
\* frame is pending, with every spi_async accepted so far.
C24_Witness ==
    Closed /\ inflight = 1 /\ busy /\ skb # NULL /\ ~failed /\ ~oops

====
